---------------------------- MODULE Spec2Model ----------------------------
(***************************************************************************)
(* A model of osgconnect/scripts/tutorial.py: the resolution of collection *)
(* aliases (get_collections), the catalog merge (get_tutorials), the       *)
(* choice of an installation directory (get_tutorial_dir) and the info and *)
(* install commands of main.                                               *)
(*                                                                         *)
(* Strings are sequences of chunks.  In the alias machinery a chunk is one *)
(* character; in names and paths a chunk is a piece of text that the code  *)
(* only ever compares or moves as a whole ("tutorial-", "./", "x", ...).   *)
(***************************************************************************)
EXTENDS Naturals, Sequences, FiniteSets

VARIABLES
    \* ---- get_collections (tutorial.py 262-269) ----
    aliases,      \* the [collections] section: option name -> value
    collValue,    \* the github-paths value handed to the outermost call
    stack,        \* the Python call stack of get_collections frames
    collStatus,   \* "running" | "done" | "RecursionError"
    collResult,   \* the list returned by the outermost call
    \* ---- get_tutorials (tutorial.py 173-243) ----
    github_paths, \* config.github_paths: the resolved collections
    localpaths,   \* config.localpaths
    tutorials,    \* the catalog under construction: name -> entry
    gpc,          \* "remote" | "local" | "done" | "raised"
    ci,           \* index of the collection being fetched
    page,         \* pages of this collection fetched so far
    nexturi,      \* the URL the next request goes to
    li,           \* index of the local path being scanned
    lastWrite,    \* history: name -> the last write made for it
    writers,      \* history: name -> the sources of all writes made for it
    lastTag,      \* history: the tag of the latest write
    inOrder,      \* history: no write had a tag below an earlier write's
    prevFetch,    \* history: the latest response in this collection
    ended,        \* history: how the loop of the latest finished collection ended
    httpErrors,   \* history: the collections a request of which failed
    requested,    \* history: the collections requested at least once
    scanned,      \* history: the local paths scanned
    \* ---- main (tutorial.py 302-431), one copy per invocation ----
    catalog,      \* what get_tutorials returned to the invocations
    fs,           \* the directories that exist in the working directory
    cmd,          \* "info" | "install"
    args,         \* the tutorial names given on the command line
    pc,           \* where the invocation is
    argno,        \* index of the name being handled
    tut,          \* the catalog key of the tutorial being installed
    base_dir,     \* get_tutorial_dir's base_dir
    trial_dir,    \* get_tutorial_dir's trial_dir, then main's tutorial_dir
    postfix,      \* get_tutorial_dir's postfix
    rc,           \* the exit status (read once pc is "exit")
    report,       \* the failure written to stderr
    listed,       \* the names listtutorials wrote
    described,    \* the names whose description info wrote
    failedAt,     \* history: index of the tutorial whose installation failed
    installed     \* history: the directories reported as installed

collVars == <<aliases, collValue, stack, collStatus, collResult>>

catVars == <<github_paths, localpaths, tutorials, gpc, ci, page, nexturi, li,
             lastWrite, writers, lastTag, inOrder, prevFetch, ended,
             httpErrors, requested, scanned>>

mainVars == <<catalog, fs, cmd, args, pc, argno, tut, base_dir, trial_dir,
              postfix, rc, report, listed, described, failedAt, installed>>

vars == <<collVars, catVars, mainVars>>

----------------------------------------------------------------------------
(* Generic sequence helpers.                                               *)

\* str.startswith
StartsWith(s, p) ==
    /\ Len(p) <= Len(s)
    /\ SubSeq(s, 1, Len(p)) = p

\* s[n:]
Drop(s, n) == SubSeq(s, n + 1, Len(s))

----------------------------------------------------------------------------
(* Each part of the program is explored by a specification of its own; the *)
(* state of the parts it does not run is at rest.                          *)

CollIdle ==
    /\ aliases = << >>
    /\ collValue = << >>
    /\ stack = << >>
    /\ collStatus = "idle"
    /\ collResult = << >>

CatIdle ==
    /\ github_paths = << >>
    /\ localpaths = << >>
    /\ tutorials = << >>
    /\ gpc = "idle"
    /\ ci = 0
    /\ page = 0
    /\ nexturi = << >>
    /\ li = 0
    /\ lastWrite = << >>
    /\ writers = << >>
    /\ lastTag = << >>
    /\ inOrder = TRUE
    /\ prevFetch = << >>
    /\ ended = << >>
    /\ httpErrors = {}
    /\ requested = {}
    /\ scanned = {}

MainIdle ==
    /\ catalog = << >>
    /\ fs = {}
    /\ cmd = << >>
    /\ args = << >>
    /\ pc = << >>
    /\ argno = << >>
    /\ tut = << >>
    /\ base_dir = << >>
    /\ trial_dir = << >>
    /\ postfix = << >>
    /\ rc = << >>
    /\ report = << >>
    /\ listed = << >>
    /\ described = << >>
    /\ failedAt = << >>
    /\ installed = << >>

----------------------------------------------------------------------------
(* get_collections                                                          *)

\* Interpreter limit on nested calls (sys.getrecursionlimit(), scaled down).
RecursionLimit == 4

\* str.strip(): whitespace removed at both ends
RECURSIVE LStrip(_)
LStrip(s) ==
    IF s # << >> /\ Head(s) = " " THEN LStrip(Tail(s)) ELSE s

RECURSIVE RStrip(_)
RStrip(s) ==
    IF s # << >> /\ s[Len(s)] = " " THEN RStrip(SubSeq(s, 1, Len(s) - 1)) ELSE s

Strip(s) == RStrip(LStrip(s))

\* str.split(","): always at least one piece, empty pieces kept
RECURSIVE SplitFrom(_, _)
SplitFrom(s, cur) ==
    IF s = << >> THEN <<cur>>
    ELSE IF Head(s) = "," THEN <<cur>> \o SplitFrom(Tail(s), << >>)
    ELSE SplitFrom(Tail(s), Append(cur, Head(s)))

Split(s) == SplitFrom(s, << >>)

\* [x.strip() for x in value.split(",")]
Items(value) ==
    LET parts == Split(value) IN [k \in 1..Len(parts) |-> Strip(parts[k])]

\* RawConfigParser.optionxform: option names are lower-cased before lookup
Lower(c) == IF c = "A" THEN "a" ELSE IF c = "B" THEN "b" ELSE c

optionxform(item) == [k \in 1..Len(item) |-> Lower(item[k])]

\* config.has_option("collections", item)
has_option(item) == optionxform(item) \in DOMAIN aliases

\* config.get("collections", item)
get_option(item) == aliases[optionxform(item)]

\* results.extend(sub)
ExtendReversed(results, sub) == sub \o results

Extend(results, sub) == results \o sub

AppendItem(results, item) == Append(results, item)

\* A frame of get_collections: the items of its value, the loop position,
\* its results list, and the option whose value it expands ("" outermost).
Frame(value, option) ==
    [items |-> Items(value), i |-> 1, results |-> << >>, option |-> option]

Top == stack[Len(stack)]

SetTop(f) == [stack EXCEPT ![Len(stack)] = f]

\* line 268: the item is not an option of [collections]
CollAppend ==
    /\ collStatus = "running"
    /\ Top.i <= Len(Top.items)
    /\ ~has_option(Top.items[Top.i])
    /\ stack' = SetTop([Top EXCEPT !.results = AppendItem(@, Top.items[Top.i]),
                                   !.i = @ + 1])
    /\ UNCHANGED <<aliases, collValue, collStatus, collResult>>
    /\ UNCHANGED <<catVars, mainVars>>

\* line 266: the item is an option; its value is resolved by a nested call
CollCall ==
    /\ collStatus = "running"
    /\ Top.i <= Len(Top.items)
    /\ has_option(Top.items[Top.i])
    /\ Len(stack) < RecursionLimit
    /\ stack' = Append(stack, Frame(get_option(Top.items[Top.i]),
                                    optionxform(Top.items[Top.i])))
    /\ UNCHANGED <<aliases, collValue, collStatus, collResult>>
    /\ UNCHANGED <<catVars, mainVars>>

\* line 266 at the interpreter's limit: the nested call raises RecursionError,
\* which no frame catches
CollRecursionError ==
    /\ collStatus = "running"
    /\ Top.i <= Len(Top.items)
    /\ has_option(Top.items[Top.i])
    /\ Len(stack) >= RecursionLimit
    /\ collStatus' = "RecursionError"
    /\ UNCHANGED <<aliases, collValue, stack, collResult>>
    /\ UNCHANGED <<catVars, mainVars>>

\* line 269 in a nested call: the caller extends its results (line 266)
CollReturn ==
    /\ collStatus = "running"
    /\ Top.i > Len(Top.items)
    /\ Len(stack) > 1
    /\ LET caller == stack[Len(stack) - 1] IN
         stack' = Append(SubSeq(stack, 1, Len(stack) - 2),
                         [caller EXCEPT !.results = Extend(@, Top.results),
                                        !.i = @ + 1])
    /\ UNCHANGED <<aliases, collValue, collStatus, collResult>>
    /\ UNCHANGED <<catVars, mainVars>>

\* line 269 in the outermost call (connect_info, line 290)
CollDone ==
    /\ collStatus = "running"
    /\ Top.i > Len(Top.items)
    /\ Len(stack) = 1
    /\ collStatus' = "done"
    /\ collResult' = Top.results
    /\ UNCHANGED <<aliases, collValue, stack>>
    /\ UNCHANGED <<catVars, mainVars>>

\* The option names and values the [collections] section is drawn from.
AliasNames == { <<"a">>, <<"b">> }

AliasValues ==
    { <<"x", ",", "y">>,
      <<"b">>,
      <<"a">>,
      <<" ", "b", " ", ",", "x">>,
      <<"x", ",", "x">>,
      <<"b", ",", "a">> }

\* The github-paths values the outermost call is given.
CollValues ==
    { <<"a", ",", "b">>,
      <<"x">>,
      <<"b", ",", " ", "a", ",", "b">>,
      <<"A", ",", "x">>,
      <<"y", ",", ",", "x", " ">>,
      <<"x", ",", "a", ",", "x">>,
      << >> }

AliasTables ==
    UNION { [D -> AliasValues] : D \in SUBSET AliasNames }

CollInit ==
    /\ aliases \in AliasTables
    /\ collValue \in CollValues
    /\ stack = << Frame(collValue, << >>) >>
    /\ collStatus = "running"
    /\ collResult = << >>

CollNext ==
    \/ CollAppend
    \/ CollCall
    \/ CollRecursionError
    \/ CollReturn
    \/ CollDone

CollStart == CollInit /\ CatIdle /\ MainIdle

SpecColl == CollStart /\ [][CollNext]_vars

----------------------------------------------------------------------------
(* Claims about get_collections                                             *)

\* The options an option's value mentions.
Mentions(n) ==
    { optionxform(Items(aliases[n])[k]) : k \in 1..Len(Items(aliases[n])) }
        \cap DOMAIN aliases

RECURSIVE ReachableIn(_, _)
ReachableIn(S, k) ==
    IF k = 0 THEN S
    ELSE ReachableIn(S \cup UNION { Mentions(n) : n \in S }, k - 1)

\* No option's value leads back to the option.
Acyclic ==
    \A n \in DOMAIN aliases :
        n \notin ReachableIn(Mentions(n), Cardinality(DOMAIN aliases))

RECURSIVE Concat(_)
Concat(ss) == IF ss = << >> THEN << >> ELSE Head(ss) \o Concat(Tail(ss))

\* The expansion the specification describes: a token that names an option
\* expands to the expansion of the option's value, any other token to itself;
\* a value expands to the concatenation of its tokens' expansions.
RECURSIVE ExpandValue(_, _)
ExpandToken(tok, fuel) ==
    IF has_option(tok) /\ fuel > 0
    THEN ExpandValue(get_option(tok), fuel - 1)
    ELSE <<tok>>

ExpandValue(value, fuel) ==
    Concat([k \in 1..Len(Items(value)) |-> ExpandToken(Items(value)[k], fuel)])

ExampleTable == [n \in { <<"a">> } |-> <<"x", ",", "y">>]

ExampleValue == <<"a", ",", "b">>

\* C4: with an alias table without cycles, get_collections returns the
\* left-to-right concatenation of every token's expansion, nothing dropped and
\* nothing reordered; "a,b" with a -> "x,y" gives [x, y, b].
C4_OrderPreserving ==
    (collStatus # "running" /\ Acyclic) =>
        /\ collStatus = "done"
        /\ collResult = ExpandValue(collValue, Cardinality(DOMAIN aliases) + 1)
        /\ (aliases = ExampleTable /\ collValue = ExampleValue) =>
               collResult = << <<"x">>, <<"y">>, <<"b">> >>

\* An acyclic table with a nested alias, expanded between two literals.
C4_Witness ==
    /\ collStatus = "done"
    /\ Acyclic
    /\ aliases = [n \in AliasNames |->
                    IF n = <<"a">> THEN <<"b", ",", "a">> ELSE <<"x", ",", "y">>]
           \/ aliases = [n \in AliasNames |->
                    IF n = <<"a">> THEN <<" ", "b", " ", ",", "x">> ELSE <<"x", ",", "y">>]
    /\ collValue = <<"x", ",", "a", ",", "x">>
    /\ collResult = << <<"x">>, <<"x">>, <<"y">>, <<"x">>, <<"x">> >>

\* C5: on meeting an option that is already being resolved, get_collections
\* fails with a CyclicAliasError instead of recursing: no option is ever on
\* the resolution chain twice.
C5_CyclicAliasError ==
    \A i, j \in 2..Len(stack) : i # j => stack[i].option # stack[j].option

----------------------------------------------------------------------------
(* get_tutorials                                                            *)

\* The chunk that stands for the text "tutorial-".
T == "tutorial-"

\* [connect] brand of Defaults
Brand == "osg"

\* Pages fetched per collection before the exploration stops following links.
MaxPages == 2

\* str.replace(old, ""): every occurrence of old, left to right, is removed
RECURSIVE Replace(_, _)
Replace(s, old) ==
    IF old = << >> \/ s = << >> THEN s
    ELSE IF StartsWith(s, old) THEN Replace(Drop(s, Len(old)), old)
    ELSE <<Head(s)>> \o Replace(Tail(s), old)

\* "/" in path, and the place of the first one
HasSlash(path) == \E k \in 1..Len(path) : path[k] = "/"

FirstSlash(path) ==
    CHOOSE k \in 1..Len(path) :
        path[k] = "/" /\ \A j \in 1..(k - 1) : path[j] # "/"

\* lines 180-186: org, pat = path.split("/", 1), or the default prefix
Org(path) ==
    IF HasSlash(path) THEN SubSeq(path, 1, FirstSlash(path) - 1) ELSE path

Pat(path) ==
    IF HasSlash(path) THEN Drop(path, FirstSlash(path)) ELSE <<T>>

\* githuburl: the API host is put before a path, the parameters and the
\* client credentials are appended
githuburl(path, params) ==
    (IF \E k \in 1..Len(path) : path[k] = "://" THEN path
     ELSE <<"https", "://", "api.github.com">> \o path)
        \o <<"?">> \o params \o <<"&client_id&client_secret">>

\* line 191
FirstPage(org) == githuburl(<<"/orgs/">> \o org \o <<"/repos">>, <<"per_page=20">>)

StartOf(c) ==
    IF c <= Len(github_paths) THEN FirstPage(Org(github_paths[c])) ELSE << >>

\* A repository object of the API's JSON answer.
Repo(org, name, description) ==
    LET url == <<"https", "://", "api.github.com", "/repos/">> \o org \o <<"/">> \o name
    IN  [name |-> name, description |-> description, url |-> url,
         branches_url |-> url \o <<"/branches", "{/branch}">>]

\* lines 204-209
RemoteEntry(repo) ==
    [description |-> repo.description,
     url |-> repo.url,
     branches_url |-> Replace(repo.branches_url, <<"{/branch}">>)]

\* line 203: the catalog key of a repository
RepoKey(name, pat) == Replace(name, pat)

\* lines 200-209: the writes one page causes, in order
RECURSIVE RemoteWrites(_, _, _)
RemoteWrites(repos, pat, pos) ==
    IF pos > Len(repos) THEN << >>
    ELSE IF ~StartsWith(repos[pos].name, pat) THEN RemoteWrites(repos, pat, pos + 1)
    ELSE << [name |-> RepoKey(repos[pos].name, pat),
             entry |-> RemoteEntry(repos[pos]),
             from |-> repos[pos].name,
             pos |-> pos] >> \o RemoteWrites(repos, pat, pos + 1)

\* lines 226, 230: os.path.join
LocalDir(path) == path \o <<"/", Brand>>

TutLocation(path, name) == LocalDir(path) \o <<"/">> \o name

\* lines 233-241
LocalEntry(path, item) ==
    [description |-> IF item.info = "IOError" THEN "???" ELSE item.info,
     url |-> <<"file", "://">> \o TutLocation(path, item.name),
     branches_url |-> << >>]

\* lines 229-241: the writes one local path causes, in order
RECURSIVE LocalWrites(_, _, _)
LocalWrites(listing, path, pos) ==
    IF pos > Len(listing) THEN << >>
    ELSE IF ~listing[pos].isdir THEN LocalWrites(listing, path, pos + 1)
    ELSE << [name |-> listing[pos].name,
             entry |-> LocalEntry(path, listing[pos]),
             from |-> TutLocation(path, listing[pos].name),
             pos |-> pos] >> \o LocalWrites(listing, path, pos + 1)

\* tutorials[name] = entry, keeping an entry the name already has
SetItemKeepFirst(d, name, entry) ==
    [x \in DOMAIN d \cup {name} |-> IF x \in DOMAIN d THEN d[x] ELSE entry]

\* tutorials[name] = entry
SetItem(d, name, entry) ==
    [x \in DOMAIN d \cup {name} |-> IF x = name THEN entry ELSE d[x]]

RECURSIVE ApplyWrites(_, _)
ApplyWrites(d, ws) ==
    IF ws = << >> THEN d
    ELSE ApplyWrites(SetItem(d, Head(ws).name, Head(ws).entry), Tail(ws))

\* The tag of a write: its source (1 remote, 2 local), the index of the
\* collection or local path, the page and the position in the page or listing.
Tag(kind, idx, pg, w) == [kind |-> kind, idx |-> idx, page |-> pg, pos |-> w.pos]

NoTag == [kind |-> 0, idx |-> 0, page |-> 0, pos |-> 0]

TagLeq(a, b) ==
    \/ a.kind < b.kind
    \/ a.kind = b.kind /\ a.idx < b.idx
    \/ a.kind = b.kind /\ a.idx = b.idx /\ a.page < b.page
    \/ a.kind = b.kind /\ a.idx = b.idx /\ a.page = b.page /\ a.pos <= b.pos

\* History of the writes ws (made under kind, idx, pg).
RECURSIVE NoteLast(_, _, _, _, _)
NoteLast(lw, ws, kind, idx, pg) ==
    IF ws = << >> THEN lw
    ELSE NoteLast([x \in DOMAIN lw \cup {Head(ws).name} |->
                      IF x = Head(ws).name
                      THEN [entry |-> Head(ws).entry, from |-> Head(ws).from,
                            kind |-> kind, idx |-> idx]
                      ELSE lw[x]],
                  Tail(ws), kind, idx, pg)

RECURSIVE NoteWriters(_, _, _, _, _)
NoteWriters(wr, ws, kind, idx, pg) ==
    IF ws = << >> THEN wr
    ELSE NoteWriters([x \in DOMAIN wr \cup {Head(ws).name} |->
                         (IF x \in DOMAIN wr THEN wr[x] ELSE {})
                             \cup (IF x = Head(ws).name THEN {<<kind, idx>>} ELSE {})],
                     Tail(ws), kind, idx, pg)

NoteOrder(ws, kind, idx, pg) ==
    /\ lastTag' = IF ws = << >> THEN lastTag ELSE Tag(kind, idx, pg, ws[Len(ws)])
    /\ inOrder' = (/\ inOrder
                   /\ ws # << >> => TagLeq(lastTag, Tag(kind, idx, pg, ws[1]))
                   /\ \A k \in 1..(Len(ws) - 1) :
                          TagLeq(Tag(kind, idx, pg, ws[k]), Tag(kind, idx, pg, ws[k + 1])))

Record(ws, kind, idx, pg) ==
    /\ tutorials' = ApplyWrites(tutorials, ws)
    /\ lastWrite' = NoteLast(lastWrite, ws, kind, idx, pg)
    /\ writers' = NoteWriters(writers, ws, kind, idx, pg)
    /\ NoteOrder(ws, kind, idx, pg)

\* lines 215-222: the Link header is absent ("None") or a list of
\* <link>; rel="rel" entries; the last entry tagged "next" is taken
NoHeader == [absent |-> TRUE, links |-> << >>]

LinkHeader(links) == [absent |-> FALSE, links |-> links]

HeaderNextFirstEntry(header) ==
    IF header.absent \/ header.links = << >> THEN << >> ELSE header.links[1].link

RECURSIVE LastNext(_, _)
LastNext(header, found) ==
    IF header = << >> THEN found
    ELSE LastNext(Tail(header),
                  IF Head(header).rel = "next" THEN Head(header).link ELSE found)

HeaderNext(header) ==
    IF header.absent \/ header.links = << >> THEN << >>
    ELSE LastNext(header.links, << >>)

NoFetch == [uri |-> << >>, header |-> NoHeader]

NoEnd == [status |-> "none", header |-> NoHeader, pages |-> 0]

\* The for loop of line 179 moves to the next collection.
NextCollection(how, header) ==
    /\ ci' = ci + 1
    /\ page' = 0
    /\ nexturi' = StartOf(ci + 1)
    /\ prevFetch' = NoFetch
    /\ ended' = [status |-> how, header |-> header, pages |-> page + 1]

\* What a request that fails with HTTPError leads to (lines 195-196).
HTTPErrorRaises ==
    /\ gpc' = "raised"
    /\ UNCHANGED <<ci, page, nexturi, prevFetch, ended>>

HTTPErrorBreaks ==
    /\ gpc' = gpc
    /\ NextCollection("HTTPError", NoHeader)

\* lines 194-222: one page is fetched and recorded
FetchPage(repos, header) ==
    /\ gpc = "remote"
    /\ ci <= Len(github_paths)
    /\ page + 1 < MaxPages \/ HeaderNext(header) = << >>
    /\ requested' = requested \cup {ci}
    /\ Record(RemoteWrites(repos, Pat(github_paths[ci]), 1), 1, ci, page + 1)
    /\ IF HeaderNext(header) = << >>
       THEN NextCollection("ok", header)
       ELSE /\ nexturi' = HeaderNext(header)
            /\ page' = page + 1
            /\ prevFetch' = [uri |-> nexturi, header |-> header]
            /\ UNCHANGED <<ci, ended>>
    /\ UNCHANGED <<github_paths, localpaths, gpc, li, httpErrors, scanned>>
    /\ UNCHANGED <<collVars, mainVars>>

\* lines 194-196: the request fails with HTTPError
FetchHTTPError ==
    /\ gpc = "remote"
    /\ ci <= Len(github_paths)
    /\ requested' = requested \cup {ci}
    /\ httpErrors' = httpErrors \cup {ci}
    /\ HTTPErrorBreaks
    /\ UNCHANGED <<github_paths, localpaths, tutorials, li, lastWrite, writers,
                   lastTag, inOrder, scanned>>
    /\ UNCHANGED <<collVars, mainVars>>

\* line 194: the request fails with a URLError that is not an HTTPError (no
\* connection); nothing catches it
FetchURLError ==
    /\ gpc = "remote"
    /\ ci <= Len(github_paths)
    /\ requested' = requested \cup {ci}
    /\ gpc' = "raised"
    /\ UNCHANGED <<github_paths, localpaths, tutorials, ci, page, nexturi, li,
                   lastWrite, writers, lastTag, inOrder, prevFetch, ended,
                   httpErrors, scanned>>
    /\ UNCHANGED <<collVars, mainVars>>

\* line 179: no collection is left
RemoteEnd ==
    /\ gpc = "remote"
    /\ ci > Len(github_paths)
    /\ gpc' = "local"
    /\ li' = 1
    /\ UNCHANGED <<github_paths, localpaths, tutorials, ci, page, nexturi,
                   lastWrite, writers, lastTag, inOrder, prevFetch, ended,
                   httpErrors, requested, scanned>>
    /\ UNCHANGED <<collVars, mainVars>>

\* lines 226-228: the brand's directory does not exist under this path
ScanMissing ==
    /\ gpc = "local"
    /\ li <= Len(localpaths)
    /\ li' = li + 1
    /\ scanned' = scanned \cup {li}
    /\ UNCHANGED <<github_paths, localpaths, tutorials, gpc, ci, page, nexturi,
                   lastWrite, writers, lastTag, inOrder, prevFetch, ended,
                   httpErrors, requested>>
    /\ UNCHANGED <<collVars, mainVars>>

\* lines 229-241: the brand's directory is listed and recorded
ScanLocal(listing) ==
    /\ gpc = "local"
    /\ li <= Len(localpaths)
    /\ Record(LocalWrites(listing, localpaths[li], 1), 2, li, 1)
    /\ li' = li + 1
    /\ scanned' = scanned \cup {li}
    /\ UNCHANGED <<github_paths, localpaths, gpc, ci, page, nexturi, prevFetch,
                   ended, httpErrors, requested>>
    /\ UNCHANGED <<collVars, mainVars>>

\* line 243
ReturnTutorials ==
    /\ gpc = "local"
    /\ li > Len(localpaths)
    /\ gpc' = "done"
    /\ UNCHANGED <<github_paths, localpaths, tutorials, ci, page, nexturi, li,
                   lastWrite, writers, lastTag, inOrder, prevFetch, ended,
                   httpErrors, requested, scanned>>
    /\ UNCHANGED <<collVars, mainVars>>

\* The inputs the exploration draws from.
GithubPathLists ==
    { << >>,
      << <<"A", "/", T>> >>,
      << <<"A", "/", T>>, <<"B", "/", T>> >>,
      << <<"A">> >>,
      << <<"B", "/">>, <<"A", "/", T, "x">> >> }

LocalPathLists ==
    { << >>, << <<"/stash">> >>, << <<"/stash">>, <<"/opt">> >> }

RepoNames == { <<T, "x">>, <<T, "x", T, "y">>, <<"y">> }

\* The organization whose repositories are being fetched.
StartOrg == IF ci \in 1..Len(github_paths) THEN Org(github_paths[ci]) ELSE << >>

\* A JSON answer: at most two repositories of the organization (<< >> for
\* a name: no such repository).
Page(org, name1, name2) ==
    (IF name1 = << >> THEN << >> ELSE << Repo(org, name1, "d1") >>)
        \o (IF name2 = << >> THEN << >> ELSE << Repo(org, name2, "d2") >>)

Link(u, rel) == [link |-> u, rel |-> rel]

Headers ==
    { NoHeader,
      LinkHeader(<< Link(<<"U1">>, "next"), Link(<<"U2">>, "last") >>),
      LinkHeader(<< Link(<<"U2">>, "last") >>),
      LinkHeader(<< Link(<<"U1">>, "prev"), Link(<<"U2">>, "next") >>) }

Item(name, isdir, info) == [name |-> name, isdir |-> isdir, info |-> info]

\* os.listdir: every name once, in the order the filesystem yields
Listings ==
    { << >>,
      << Item(<<"x">>, TRUE, "info") >>,
      << Item(<<"x">>, TRUE, "IOError") >>,
      << Item(<<"x">>, FALSE, "IOError") >>,
      << Item(<<"x">>, TRUE, "info"), Item(<<"y">>, TRUE, "info") >>,
      << Item(<<"y">>, TRUE, "IOError"), Item(<<"x">>, FALSE, "info") >> }

CatInit ==
    /\ github_paths \in GithubPathLists
    /\ localpaths \in LocalPathLists
    /\ tutorials = << >>
    /\ gpc = "remote"
    /\ ci = 1
    /\ page = 0
    /\ nexturi = StartOf(1)
    /\ li = 0
    /\ lastWrite = << >>
    /\ writers = << >>
    /\ lastTag = NoTag
    /\ inOrder = TRUE
    /\ prevFetch = NoFetch
    /\ ended = NoEnd
    /\ httpErrors = {}
    /\ requested = {}
    /\ scanned = {}

CatNext ==
    \/ \E header \in Headers, name1 \in RepoNames \cup { << >> },
            name2 \in { << >>, <<T, "x">> } :
         FetchPage(Page(StartOrg, name1, name2), header)
    \/ FetchHTTPError
    \/ FetchURLError
    \/ RemoteEnd
    \/ ScanMissing
    \/ \E listing \in Listings : ScanLocal(listing)
    \/ ReturnTutorials

CatStart == CatInit /\ CollIdle /\ MainIdle

SpecCatalog == CatStart /\ [][CatNext]_vars

----------------------------------------------------------------------------
(* Claims about get_tutorials                                               *)

MaxOf(S) == CHOOSE m \in S : \A k \in S : k <= m

LocalIdx(name) == { w[2] : w \in { v \in writers[name] : v[1] = 2 } }

RemoteIdx(name) == { w[2] : w \in { v \in writers[name] : v[1] = 1 } }

\* C1: the catalog's entry for a name is the whole entry last written for it,
\* the writes being made in the order remote (by collection, then page) and
\* then local (by local path): a name written from a local path holds the
\* entry of the last such path, and a name written only from collections holds
\* the entry of the last such collection.
C1_LastWriteWins ==
    /\ inOrder
    /\ DOMAIN tutorials = DOMAIN lastWrite
    /\ \A name \in DOMAIN tutorials :
         /\ tutorials[name] = lastWrite[name].entry
         /\ LocalIdx(name) # {} =>
              /\ lastWrite[name].kind = 2
              /\ lastWrite[name].idx = MaxOf(LocalIdx(name))
              /\ tutorials[name].branches_url = << >>
              /\ tutorials[name].description \in { "info", "???" }
              /\ tutorials[name].url =
                   <<"file", "://">>
                       \o TutLocation(localpaths[MaxOf(LocalIdx(name))], name)
         /\ LocalIdx(name) = {} =>
              /\ lastWrite[name].kind = 1
              /\ lastWrite[name].idx = MaxOf(RemoteIdx(name))
              /\ tutorials[name].url =
                   Repo(Org(github_paths[MaxOf(RemoteIdx(name))]),
                        lastWrite[name].from, "d1").url

\* A returned catalog with a name written by two collections and then by two
\* local paths.
C1_Witness ==
    /\ gpc = "done"
    /\ <<"x">> \in DOMAIN tutorials
    /\ writers[<<"x">>] = { <<1, 1>>, <<1, 2>>, <<2, 1>>, <<2, 2>> }
    /\ tutorials[<<"x">>].url = <<"file", "://", "/opt", "/", Brand, "/", "x">>

\* The links of a header that are tagged "next".
NextLinks(header) ==
    IF header.absent THEN {}
    ELSE { header.links[k].link :
             k \in { j \in 1..Len(header.links) : header.links[j].rel = "next" } }

ExampleHeader ==
    LinkHeader(<< Link(<<"U1">>, "next"), Link(<<"U2">>, "last") >>)

\* C6: the first request of a collection goes to its first page and every
\* later one to the link the previous answer tags "next" (U1 for the header
\* <U1>; rel="next", <U2>; rel="last"); the collection's loop ends, after an
\* answer, only at one whose Link header is absent or has no "next" link.
C6_FollowsNext ==
    /\ (gpc = "remote" /\ ci <= Len(github_paths)) =>
         IF page = 0
         THEN nexturi = FirstPage(Org(github_paths[ci]))
         ELSE /\ ~prevFetch.header.absent
              /\ nexturi \in NextLinks(prevFetch.header)
              /\ prevFetch.header = ExampleHeader => nexturi = <<"U1">>
    /\ ended.status = "ok" => NextLinks(ended.header) = {}

\* The second request of a collection, after the example header.
C6_Witness ==
    /\ gpc = "remote"
    /\ ci = 2
    /\ page = 1
    /\ prevFetch.header = ExampleHeader
    /\ prevFetch.uri = FirstPage(<<"B">>)
    /\ nexturi = <<"U1">>

C7_Step ==
    httpErrors' # httpErrors =>
        /\ tutorials' = tutorials
        /\ gpc' = "remote"
        /\ ci' = ci + 1
        /\ page' = 0
        /\ nexturi' = StartOf(ci + 1)

C7_Returned ==
    gpc = "done" =>
        /\ requested = 1..Len(github_paths)
        /\ scanned = 1..Len(localpaths)
        /\ \A c \in httpErrors : c \in requested

\* C7: a request that fails with an HTTP error ends the fetch of its
\* collection only: the catalog keeps what it holds, the next collection is
\* fetched from its first page, and the catalog that is returned was built
\* from a request to every collection and a scan of every local path.
C7_HTTPErrorSkipsCollection == []C7_Returned /\ [][C7_Step]_vars

\* A returned catalog that holds an entry of the first collection, whose
\* second page failed, and an entry of the second collection.
C7_Witness ==
    /\ gpc = "done"
    /\ httpErrors = {1}
    /\ requested = {1, 2}
    /\ scanned = {1}
    /\ \E n, m \in DOMAIN tutorials :
         /\ lastWrite[n].kind = 1 /\ lastWrite[n].idx = 1
         /\ lastWrite[m].kind = 1 /\ lastWrite[m].idx = 2

\* C10: the key of a fetched repository is its name without the leading
\* prefix, the rest of the name unchanged, and only a repository whose name
\* starts with the prefix is recorded.
C10_LeadingPrefixStripped ==
    \A name \in DOMAIN lastWrite :
        lastWrite[name].kind = 1 =>
            LET pat == Pat(github_paths[lastWrite[name].idx]) IN
              /\ StartsWith(lastWrite[name].from, pat)
              /\ name = Drop(lastWrite[name].from, Len(pat))

----------------------------------------------------------------------------
(* main: the info command and the installation of tutorials                *)

\* Two invocations of the program in the same working directory.
Procs == { 1, 2 }

\* "%d" % postfix
Decimal(k) == <<"0", "1", "2", "3", "4", "5", "6", "7", "8", "9">>[k + 1]

\* lines 162-164: base_dir
BaseDir(tutorial) ==
    <<"./">> \o (IF StartsWith(tutorial, <<T>>) THEN tutorial ELSE <<T>> \o tutorial)

\* line 169: "%s.%d" % (base_dir, postfix)
TrialDirSkipping(base, k) == base \o <<".", Decimal(k + 1)>>

TrialDir(base, k) == base \o <<".", Decimal(k)>>

\* lines 393-394: a leading "tutorial-" of the name given is dropped
StripTutorial(name) == IF StartsWith(name, <<T>>) THEN Drop(name, 1) ELSE name

\* line 413
IsFile(entry) == StartsWith(entry.url, <<"file">>)

\* line 141: the directory the archive unpacks to, named by the archive's
\* first member
ExtractDir(tutorial) == <<"./", "archive-">> \o tutorial

\* The order of sorted() on the names.
ChunkRank(c) ==
    CASE c = "r" -> 1 [] c = T -> 2 [] c = "x" -> 3 [] c = "y" -> 4 [] OTHER -> 5

RECURSIVE LexLess(_, _)
LexLess(a, b) ==
    IF b = << >> THEN FALSE
    ELSE IF a = << >> THEN TRUE
    ELSE IF Head(a) # Head(b) THEN ChunkRank(Head(a)) < ChunkRank(Head(b))
    ELSE LexLess(Tail(a), Tail(b))

\* lines 329-343: the names listtutorials writes, in order
ListTutorials ==
    LET keys == DOMAIN catalog
    IN  CHOOSE q \in [1..Cardinality(keys) -> keys] :
            \A i, j \in 1..Cardinality(keys) : i < j => LexLess(q[i], q[j])

Unknown(names) == { k \in 1..Len(names) : names[k] \notin DOMAIN catalog }

\* lines 375-386, with one loop that describes each name as it is checked
InfoResultOneLoop(names) ==
    IF Unknown(names) # {}
    THEN LET first == CHOOSE k \in Unknown(names) : \A j \in Unknown(names) : k <= j
         IN  [rc |-> 10, report |-> <<"not found">> \o names[first],
              listed |-> ListTutorials, described |-> SubSeq(names, 1, first - 1)]
    ELSE [rc |-> 0, report |-> << >>, listed |-> << >>, described |-> names]

\* lines 375-386
InfoResult(names) ==
    IF Unknown(names) # {}
    THEN LET first == CHOOSE k \in Unknown(names) : \A j \in Unknown(names) : k <= j
         IN  [rc |-> 10, report |-> <<"not found">> \o names[first],
              listed |-> ListTutorials, described |-> << >>]
    ELSE [rc |-> 0, report |-> << >>, listed |-> << >>, described |-> names]

\* lines 375-386: the info command
Info(p) ==
    /\ pc[p] = "info"
    /\ rc' = [rc EXCEPT ![p] = InfoResult(args[p]).rc]
    /\ report' = [report EXCEPT ![p] = InfoResult(args[p]).report]
    /\ listed' = [listed EXCEPT ![p] = InfoResult(args[p]).listed]
    /\ described' = [described EXCEPT ![p] = InfoResult(args[p]).described]
    /\ pc' = [pc EXCEPT ![p] = "exit"]
    /\ UNCHANGED <<catalog, fs, cmd, args, argno, tut, base_dir, trial_dir,
                   postfix, failedAt, installed>>
    /\ UNCHANGED <<collVars, catVars>>

\* lines 395-398: the name is not in the catalog
LookupUnknown(p) ==
    /\ pc[p] = "lookup"
    /\ argno[p] <= Len(args[p])
    /\ StripTutorial(args[p][argno[p]]) \notin DOMAIN catalog
    /\ report' = [report EXCEPT ![p] =
                     <<"not found">> \o StripTutorial(args[p][argno[p]])]
    /\ listed' = [listed EXCEPT ![p] = ListTutorials]
    /\ rc' = [rc EXCEPT ![p] = 20]
    /\ pc' = [pc EXCEPT ![p] = "exit"]
    /\ UNCHANGED <<catalog, fs, cmd, args, argno, tut, base_dir, trial_dir,
                   postfix, described, failedAt, installed>>
    /\ UNCHANGED <<collVars, catVars>>

\* lines 392-400 and 162-166: the name is in the catalog; get_tutorial_dir
\* starts
LookupKnown(p) ==
    /\ pc[p] = "lookup"
    /\ argno[p] <= Len(args[p])
    /\ StripTutorial(args[p][argno[p]]) \in DOMAIN catalog
    /\ tut' = [tut EXCEPT ![p] = StripTutorial(args[p][argno[p]])]
    /\ base_dir' = [base_dir EXCEPT ![p] = BaseDir(tut'[p])]
    /\ trial_dir' = [trial_dir EXCEPT ![p] = BaseDir(tut'[p])]
    /\ postfix' = [postfix EXCEPT ![p] = 0]
    /\ pc' = [pc EXCEPT ![p] = "getdir"]
    /\ UNCHANGED <<catalog, fs, cmd, args, argno, rc, report, listed, described,
                   failedAt, installed>>
    /\ UNCHANGED <<collVars, catVars>>

\* line 392: no name is left; main returns None
MainReturn(p) ==
    /\ pc[p] = "lookup"
    /\ argno[p] > Len(args[p])
    /\ rc' = [rc EXCEPT ![p] = 0]
    /\ pc' = [pc EXCEPT ![p] = "exit"]
    /\ UNCHANGED <<catalog, fs, cmd, args, argno, tut, base_dir, trial_dir,
                   postfix, report, listed, described, failedAt, installed>>
    /\ UNCHANGED <<collVars, catVars>>

\* lines 167-169: os.path.exists(trial_dir) holds
GetDirBusy(p) ==
    /\ pc[p] = "getdir"
    /\ trial_dir[p] \in fs
    /\ postfix[p] < 9
    /\ postfix' = [postfix EXCEPT ![p] = @ + 1]
    /\ trial_dir' = [trial_dir EXCEPT ![p] = TrialDir(base_dir[p], postfix[p] + 1)]
    /\ UNCHANGED <<catalog, fs, cmd, args, pc, argno, tut, base_dir, rc, report,
                   listed, described, failedAt, installed>>
    /\ UNCHANGED <<collVars, catVars>>

\* lines 167, 170: os.path.exists(trial_dir) fails; the pair is returned
GetDirFree(p) ==
    /\ pc[p] = "getdir"
    /\ trial_dir[p] \notin fs
    /\ pc' = [pc EXCEPT ![p] = "resolved"]
    /\ UNCHANGED <<catalog, fs, cmd, args, argno, tut, base_dir, trial_dir,
                   postfix, rc, report, listed, described, failedAt, installed>>
    /\ UNCHANGED <<collVars, catVars>>

\* lines 401-413: the branches are fetched, the branch is chosen, the
\* progress lines are written
TutorialBranches(p) ==
    /\ pc[p] = "resolved"
    /\ pc' = [pc EXCEPT ![p] = IF IsFile(catalog[tut[p]]) THEN "copy" ELSE "fetch"]
    /\ UNCHANGED <<catalog, fs, cmd, args, argno, tut, base_dir, trial_dir,
                   postfix, rc, report, listed, described, failedAt, installed>>
    /\ UNCHANGED <<collVars, catVars>>

\* An installation that failed goes on with the next name.
AbortSkipsTutorial(p, message) ==
    /\ failedAt' = [failedAt EXCEPT ![p] = argno[p]]
    /\ report' = [report EXCEPT ![p] = message]
    /\ argno' = [argno EXCEPT ![p] = @ + 1]
    /\ pc' = [pc EXCEPT ![p] = "lookup"]
    /\ rc' = rc

\* lines 419, 425, 428 (and an exception nothing catches): the invocation
\* ends with status 1
Abort(p, message) ==
    /\ failedAt' = [failedAt EXCEPT ![p] = argno[p]]
    /\ report' = [report EXCEPT ![p] = message]
    /\ argno' = argno
    /\ pc' = [pc EXCEPT ![p] = "exit"]
    /\ rc' = [rc EXCEPT ![p] = 1]

\* line 416: copytree's os.makedirs finds the directory; FileExistsError is
\* no shutil.Error and is not caught
CopyTreeExists(p) ==
    /\ pc[p] = "copy"
    /\ trial_dir[p] \in fs
    /\ Abort(p, <<"Traceback: FileExistsError">>)
    /\ UNCHANGED <<catalog, fs, cmd, args, tut, base_dir, trial_dir, postfix,
                   listed, described, installed>>
    /\ UNCHANGED <<collVars, catVars>>

\* line 416: copytree's os.makedirs creates the directory
CopyTreeMkdir(p) ==
    /\ pc[p] = "copy"
    /\ trial_dir[p] \notin fs
    /\ fs' = fs \cup { trial_dir[p] }
    /\ pc' = [pc EXCEPT ![p] = "copying"]
    /\ UNCHANGED <<catalog, cmd, args, argno, tut, base_dir, trial_dir, postfix,
                   rc, report, listed, described, failedAt, installed>>
    /\ UNCHANGED <<collVars, catVars>>

\* lines 416-419: copytree raises shutil.Error for the files it could not copy
CopyTreeError(p) ==
    /\ pc[p] = "copying"
    /\ Abort(p, <<"Can't write tutorial to">> \o trial_dir[p])
    /\ UNCHANGED <<catalog, fs, cmd, args, tut, base_dir, trial_dir, postfix,
                   listed, described, installed>>
    /\ UNCHANGED <<collVars, catVars>>

\* line 416: copytree copied the tree
CopyTreeDone(p) ==
    /\ pc[p] = "copying"
    /\ pc' = [pc EXCEPT ![p] = "installed"]
    /\ UNCHANGED <<catalog, fs, cmd, args, argno, tut, base_dir, trial_dir,
                   postfix, rc, report, listed, described, failedAt, installed>>
    /\ UNCHANGED <<collVars, catVars>>

\* lines 107-118, 421-428: the download or the extraction raises; get_repo
\* reports it and returns None; a part of the archive may have been unpacked
GetRepoFails(p, unpacked) ==
    /\ pc[p] = "fetch"
    /\ fs' = IF unpacked THEN fs \cup { ExtractDir(tut[p]) } ELSE fs
    /\ Abort(p, <<"Can't download files from github">>)
    /\ UNCHANGED <<catalog, cmd, args, tut, base_dir, trial_dir, postfix,
                   listed, described, installed>>
    /\ UNCHANGED <<collVars, catVars>>

\* lines 108-111, 131-145: the archive is downloaded and unpacked in the
\* working directory
Extract(p) ==
    /\ pc[p] = "fetch"
    /\ fs' = fs \cup { ExtractDir(tut[p]) }
    /\ pc' = [pc EXCEPT ![p] = "rename"]
    /\ UNCHANGED <<catalog, cmd, args, argno, tut, base_dir, trial_dir, postfix,
                   rc, report, listed, described, failedAt, installed>>
    /\ UNCHANGED <<collVars, catVars>>

\* lines 147-150: os.rename moves the unpacked directory to tutorial_dir
\* (onto nothing, or onto a directory that is still empty)
RenameDone(p) ==
    /\ pc[p] = "rename"
    /\ ExtractDir(tut[p]) \in fs
    /\ fs' = (fs \ { ExtractDir(tut[p]) }) \cup { trial_dir[p] }
    /\ pc' = [pc EXCEPT ![p] = "installed"]
    /\ UNCHANGED <<catalog, cmd, args, argno, tut, base_dir, trial_dir, postfix,
                   rc, report, listed, described, failedAt, installed>>
    /\ UNCHANGED <<collVars, catVars>>

\* lines 148-152: os.rename fails (the unpacked directory is gone, or
\* tutorial_dir holds files); the error is dropped and get_repo returns a path
RenameFails(p) ==
    /\ pc[p] = "rename"
    /\ ExtractDir(tut[p]) \notin fs \/ trial_dir[p] \in fs
    /\ pc' = [pc EXCEPT ![p] = "installed"]
    /\ UNCHANGED <<catalog, fs, cmd, args, argno, tut, base_dir, trial_dir,
                   postfix, rc, report, listed, described, failedAt, installed>>
    /\ UNCHANGED <<collVars, catVars>>

\* lines 429-431: the installation is reported, setup is run, the loop goes on
Initialize(p) ==
    /\ pc[p] = "installed"
    /\ installed' = [installed EXCEPT ![p] = Append(@, trial_dir[p])]
    /\ argno' = [argno EXCEPT ![p] = @ + 1]
    /\ pc' = [pc EXCEPT ![p] = "lookup"]
    /\ UNCHANGED <<catalog, fs, cmd, args, tut, base_dir, trial_dir, postfix,
                   rc, report, listed, described, failedAt>>
    /\ UNCHANGED <<collVars, catVars>>

\* The inputs the exploration draws from.
X == <<"x">>

R == <<"r">>

Catalogs ==
    { [n \in { X, R, <<T, "x">> } |->
          IF n = R THEN RemoteEntry(Repo(<<"A">>, <<T>> \o n, "d1"))
          ELSE LocalEntry(<<"/stash">>, Item(n, TRUE, "info"))],
      [n \in { X } |-> RemoteEntry(Repo(<<"A">>, <<T>> \o n, "d1"))] }

ArgLists ==
    { <<X>>, <<X, X>>, <<R, X>>, <<<<"z">>, X>>, <<X, <<"z">>>>,
      << <<T, "x">>, R >>, << <<T, T, "x">> >>, <<R, R>> }

OtherArgLists == { <<X>>, <<R>> }

PreExisting == { BaseDir(X), TrialDir(BaseDir(X), 1), BaseDir(R) }

MainInit ==
    /\ catalog \in Catalogs
    /\ fs \in SUBSET PreExisting
    /\ cmd \in { c \in [Procs -> { "info", "install" }] : c[2] = "install" }
    /\ args \in { a \in [Procs -> ArgLists \cup OtherArgLists] :
                     a[1] \in ArgLists /\ a[2] \in OtherArgLists }
    /\ pc = [p \in Procs |-> IF cmd[p] = "info" THEN "info" ELSE "lookup"]
    /\ argno = [p \in Procs |-> 1]
    /\ tut = [p \in Procs |-> << >>]
    /\ base_dir = [p \in Procs |-> << >>]
    /\ trial_dir = [p \in Procs |-> << >>]
    /\ postfix = [p \in Procs |-> 0]
    /\ rc = [p \in Procs |-> 0]
    /\ report = [p \in Procs |-> << >>]
    /\ listed = [p \in Procs |-> << >>]
    /\ described = [p \in Procs |-> << >>]
    /\ failedAt = [p \in Procs |-> 0]
    /\ installed = [p \in Procs |-> << >>]

MainNext ==
    \E p \in Procs :
        \/ Info(p)
        \/ LookupUnknown(p)
        \/ LookupKnown(p)
        \/ MainReturn(p)
        \/ GetDirBusy(p)
        \/ GetDirFree(p)
        \/ TutorialBranches(p)
        \/ CopyTreeExists(p)
        \/ CopyTreeMkdir(p)
        \/ CopyTreeError(p)
        \/ CopyTreeDone(p)
        \/ \E unpacked \in BOOLEAN : GetRepoFails(p, unpacked)
        \/ Extract(p)
        \/ RenameDone(p)
        \/ RenameFails(p)
        \/ Initialize(p)

MainStart == MainInit /\ CollIdle /\ CatIdle

SpecMain == MainStart /\ [][MainNext]_vars

----------------------------------------------------------------------------
(* Claims about main                                                        *)

\* The candidates of get_tutorial_dir: the base, then base.1, base.2, ...
Candidate(base, k) == IF k = 0 THEN base ELSE base \o <<".", Decimal(k)>>

\* get_tutorial_dir returns in this step.
Returns(p) == pc[p] = "getdir" /\ pc'[p] = "resolved"

\* What is returned is the first candidate that does not exist.
FirstFit(p, base) ==
    \E k \in 0..9 :
        /\ trial_dir'[p] = Candidate(base, k)
        /\ Candidate(base, k) \notin fs'
        /\ \A j \in 0..(k - 1) : Candidate(base, j) \in fs'

\* C2 as stated: for every tutorial name the destination returned is the
\* first candidate among ./tutorial-<name>, ./tutorial-<name>.1, ... that does
\* not exist.
C2_FirstFit ==
    [][\A p \in Procs : Returns(p) => FirstFit(p, <<"./", T>> \o tut[p])]_vars

\* C2 as amended: the base is ./tutorial-<name>, or ./<name> when the name
\* starts with "tutorial-" itself; the destination returned is the first
\* candidate among base, base.1, base.2, ... that does not exist, every
\* candidate before it exists.
C2_FirstFitFromBase ==
    [][\A p \in Procs :
          Returns(p) =>
              /\ base_dir'[p] = IF StartsWith(tut[p], <<T>>)
                                THEN <<"./">> \o tut[p]
                                ELSE <<"./", T>> \o tut[p]
              /\ FirstFit(p, base_dir'[p])]_vars

\* The base and its first suffix exist: the second suffix is returned.
C2_Witness ==
    /\ pc[1] = "resolved"
    /\ tut[1] = X
    /\ postfix[1] = 2
    /\ trial_dir[1] = <<"./", T, "x", ".", "2">>
    /\ { <<"./", T, "x">>, <<"./", T, "x", ".", "1">> } \subseteq fs

\* Between the return of get_tutorial_dir and the end of the installation.
Installing(p) == pc[p] \in { "resolved", "copy", "copying", "fetch", "rename" }

\* C3: two invocations that install the same tutorial at the same time never
\* hold the same destination directory.
C3_DistinctDestinations ==
    \A p, q \in Procs :
        (p # q /\ Installing(p) /\ Installing(q) /\ tut[p] = tut[q]) =>
            trial_dir[p] # trial_dir[q]

=============================================================================
